---- MODULE Spec2Model ----
(***************************************************************************)
(* Delivery-agent assignment and live locations of the Tindo backend       *)
(* (src/server.js).                                                        *)
(*                                                                         *)
(* Two routes assign an agent to an order:                                 *)
(*   POST /api/admin/orders/:orderId/assign   (server.js 1636-1718)        *)
(*   PUT  /api/orders/:orderId/assign         (server.js 697-759)          *)
(* Agents report their location over Socket.IO ("agentLocation") or by     *)
(* POST /api/delivery/location; the server keeps the latest report per     *)
(* agent in memory and emits it to every connection (server.js 1916-1945,  *)
(* 2244-2311).                                                             *)
(*                                                                         *)
(* The assign routes are async handlers on the Node event loop: a handler  *)
(* runs without interruption up to its next `await db.execute(...)`, and   *)
(* any other                                                               *)
(* handler may run between the query being issued and its continuation.    *)
(* Each action below is one such uninterrupted piece: the execution of the *)
(* awaited statement against the database together with the code that      *)
(* follows it up to the next await or the response.                        *)
(*                                                                         *)
(* Units.  Latitudes and longitudes are integers in 1e-4 degrees.          *)
(* Distances and radii are whole metres (the source computes kilometres in *)
(* floating point).  A nullable column or JSON field is a sequence of      *)
(* length at most one: <<>> is NULL / null, <<v>> is the value v.          *)
(***************************************************************************)
EXTENDS Integers, Sequences, FiniteSets, TLC

(***************************************************************************)
(* Bounds of the model.                                                    *)
(***************************************************************************)
NumAgents == 2
NumOrders == 1
NumReqs == 2
MaxLoad == 1

AgentIds == 1..NumAgents
OrderIds == 1..NumOrders
\* order ids a caller may name: the stored ones and one that does not exist
ReqOrderIds == 1..(NumOrders + 1)
Reqs == 1..NumReqs

NULL == <<>>
Val(v) == <<v>>

(***************************************************************************)
(* Coordinates used as inputs (1e-4 degrees).                              *)
(***************************************************************************)
PickupHyd == <<173850, 784867>>   \* restaurant of the spec's scenarios
PickupNearZero == <<100, 100>>    \* a pickup 1.57 km from (0, 0)
PointA == <<173860, 784870>>
PointB == <<174000, 785100>>
PointC == <<200000, 800000>>
PickupMeridian == <<514779, 0>>   \* a pickup on the prime meridian (Greenwich)
PointM == <<514789, 3>>

\* Number(v) of a nullable numeric field: Number(null) is 0.
Number(v) == IF v = NULL THEN 0 ELSE v[1]

\* dist(aLat, aLng, bLat, bLng): the haversine formula of the source
\* evaluated on the model's points, in whole metres.
HaversineM ==
  ( <<173850, 784867, 173860, 784870>> :> 115 @@
    <<173850, 784867, 174000, 785100>> :> 2982 @@
    <<173850, 784867, 200000, 800000>> :> 331588 @@
    <<173850, 784867, 0, 0>> :> 8786549 @@
    <<100, 100, 173860, 784870>> :> 8785190 @@
    <<100, 100, 174000, 785100>> :> 8787721 @@
    <<100, 100, 200000, 800000>> :> 8961851 @@
    <<100, 100, 0, 0>> :> 1572 @@
    <<173850, 784867, 514789, 3>> :> 7713122 @@
    <<514779, 0, 173860, 784870>> :> 7713083 @@
    <<514779, 0, 174000, 785100>> :> 7713495 @@
    <<514779, 0, 514789, 3>> :> 113 )

dist(aLat, aLng, bLat, bLng) == HaversineM[<<aLat, aLng, bLat, bLng>>]

\* Number(process.env.ASSIGN_MAX_KM) || 10, and the default of the PUT body
DefaultMaxM == 10000
\* the radii a deployment or a request may configure: the default, and one
\* that equals the distance of PointB from PickupHyd exactly
Radii == {DefaultMaxM, dist(PickupHyd[1], PickupHyd[2], PointB[1], PointB[2])}

ASSIGN_LOAD_STATUSES == {"Pending", "Confirmed", "Picked"}


VARIABLES
  orders,        \* table orders: id -> [status, agent_id, restaurant_id]
  agents,        \* table agents: id -> [status, lat, lng]
  restaurants,   \* table restaurants: id -> [latitude, longitude]
  envMaxM,       \* process.env.ASSIGN_MAX_KM as read by the admin route
  req,           \* the handler invocations: position, live locals and response
  engine,        \* one run of the decision code on its own: inputs and result
  deliveryAgents,        \* let deliveryAgents = {}: agentId -> { lat, lng, updatedAt }
  globalDeliveryAgents,  \* global.deliveryAgents and global.agents: agentId -> { lat, lng }
  sockets,       \* the Socket.IO connections that are open
  stream,        \* per connection: the events emitted to it and not yet received
  received,      \* per connection: the events its client has received, in order
  reports,       \* the location reports that have arrived, in order of arrival,
                 \* each with whether the handlers stored and emitted it
  httpRes,       \* the answer to the latest POST /api/delivery/location
  cmp,           \* both assign routes run on one input: the input and the outcomes
  statusReq,     \* the approve / reject handler invocations
  statusLog,     \* the agentStatusChanged events in the order of their emission
  reviews,       \* table restaurant_reviews: the rows in the order of insertion
  reviewsUnique, \* whether the table has a unique index on order_id
  reviewReq,     \* the review handler invocations
  cart,          \* localStorage "cart" of the browser: the array of items
  cartCall       \* the latest call of a cart function

hubVars == <<deliveryAgents, globalDeliveryAgents, sockets, stream, received, reports, httpRes>>

auxVars == <<cmp, statusReq, statusLog, reviews, reviewsUnique, reviewReq, cart, cartCall>>

vars == <<orders, agents, restaurants, envMaxM, req, engine, hubVars, auxVars>>


(***************************************************************************)
(* The decision code shared by both routes: candidates.map / filter / sort *)
(***************************************************************************)
\* loadMap.get(a.id) ?? 0   (admin)   and   loadMap?.[a.id] ?? 0   (PUT)
LoadOf(loadMap, id) == IF id \in DOMAIN loadMap THEN loadMap[id] ELSE 0

\* agents.map(a => ({ id, d: dist(rlat, rlng, Number(a.lat), Number(a.lng)), load }))
MapCandidates(rlat, rlng, rows, loadMap) ==
  [i \in 1..Len(rows) |->
     [id |-> rows[i].id,
      d |-> dist(rlat, rlng, Number(rows[i].lat), Number(rows[i].lng)),
      load |-> LoadOf(loadMap, rows[i].id)]]

\* the filter left out: every candidate passes
WithinRadiusUnchecked(c, maxM) == c.d >= 0

\* c => c.d <= ASSIGN_MAX_KM
WithinRadius(c, maxM) == c.d <= maxM

FilterCandidates(cands, maxM) == SelectSeq(cands, LAMBDA c : WithinRadius(c, maxM))

\* the sort keys swapped: distance first, then workload
CompareDistanceFirst(a, b) == IF a.d - b.d # 0 THEN a.d - b.d ELSE a.load - b.load

\* (a, b) => a.load - b.load || a.d - b.d
Compare(a, b) == IF a.load - b.load # 0 THEN a.load - b.load ELSE a.d - b.d

\* Array.prototype.sort is stable: an element goes behind every element that
\* does not compare greater than it.
InsertSorted(s, x) ==
  LET k == Cardinality({i \in 1..Len(s) : Compare(s[i], x) <= 0})
  IN  SubSeq(s, 1, k) \o <<x>> \o SubSeq(s, k + 1, Len(s))

RECURSIVE SortCandidates(_)
SortCandidates(s) ==
  IF s = <<>> THEN <<>>
  ELSE InsertSorted(SortCandidates(SubSeq(s, 1, Len(s) - 1)), s[Len(s)])

\* the candidates after map, filter and sort; best is its first element
Ranked(rlat, rlng, rows, loadMap, maxM) ==
  SortCandidates(FilterCandidates(MapCandidates(rlat, rlng, rows, loadMap), maxM))

\* Number(best.d.toFixed(2)), in hundredths of a kilometre
DistanceKm(d) == (d + 5) \div 10

(***************************************************************************)
(* Database statements.                                                    *)
(***************************************************************************)
\* SELECT id, lat, lng FROM agents WHERE status = 'Active'
\*   AND lat IS NOT NULL AND lng IS NOT NULL
ActiveLocated(tbl) ==
  {a \in DOMAIN tbl : tbl[a].status = "Active" /\ tbl[a].lat # NULL /\ tbl[a].lng # NULL}

AgentRow(tbl, a) == [id |-> a, lat |-> tbl[a].lat, lng |-> tbl[a].lng]

\* the rows of a result set in any order: the statement has no ORDER BY
Orderings(S) ==
  {s \in [1..Cardinality(S) -> S] : \A i, j \in 1..Cardinality(S) : s[i] = s[j] => i = j}

\* SELECT agent_id, COUNT(*) AS cnt FROM orders WHERE status IN (...)
\*   AND agent_id IS NOT NULL GROUP BY agent_id
LoadRows(ords) ==
  LET counted(a) == {o \in DOMAIN ords : /\ ords[o].status \in ASSIGN_LOAD_STATUSES
                                          /\ ords[o].agent_id = Val(a)}
      grouped == {a \in AgentIds : counted(a) # {}}
  IN  [a \in grouped |-> Cardinality(counted(a))]

\* the agent written without the status: UPDATE orders SET agent_id = ?
UpdateAgentOnly(ords, agentId, orderId) ==
  [o \in DOMAIN ords |->
     IF o = orderId THEN [ords[o] EXCEPT !.agent_id = Val(agentId)] ELSE ords[o]]

\* UPDATE orders SET agent_id = ?, status = 'Confirmed' WHERE id = ?
UpdateAssignment(ords, agentId, orderId) ==
  [o \in DOMAIN ords |->
     IF o = orderId
       THEN [ords[o] EXCEPT !.agent_id = Val(agentId), !.status = "Confirmed"]
       ELSE ords[o]]

(***************************************************************************)
(* Handler invocations.  A local is kept only while code still to run      *)
(* reads it: after the ranking that is best.id and best.d.                 *)
(***************************************************************************)
NoBest == [id |-> 0, d |-> 0]
NoResp == [status |-> 0, error |-> "", agent_id |-> 0, distance_km |-> 0, radius |-> 0]
NoLoads == [a \in {} |-> 0]

IdleReq ==
  [route |-> "none", pc |-> "idle", orderId |-> 0, restaurant_id |-> 0,
   rlat |-> 0, rlng |-> 0, rows |-> <<>>, maxM |-> 0, best |-> NoBest, resp |-> NoResp]

\* res.status(code).json({ error })
ErrorResp(code, kind) == [NoResp EXCEPT !.status = code, !.error = kind]

\* the message written with the default radius instead of the one in use
NoneWithinRespDefault(maxM) ==
  [NoResp EXCEPT !.status = 400, !.error = "NoAgentsWithinRadius", !.radius = DefaultMaxM]

\* res.status(400).json({ error: `No active agents within ${ASSIGN_MAX_KM} km` })
NoneWithinResp(maxM) ==
  [NoResp EXCEPT !.status = 400, !.error = "NoAgentsWithinRadius", !.radius = maxM]

\* res.json({ message: 'Agent assigned (nearest)', agent_id, distance_km })
AssignedResp(best) ==
  [NoResp EXCEPT !.status = 200, !.error = "none", !.agent_id = best.id,
                 !.distance_km = DistanceKm(best.d)]

\* the handler has responded: its locals are gone, the response stays
Respond(q, resp) ==
  [IdleReq EXCEPT !.route = q.route, !.pc = "done", !.orderId = q.orderId, !.resp = resp]

\* the code from candidates.map to the issue of the UPDATE
RankAndIssue(q, rlat, rlng, rows, loadMap, maxM) ==
  LET candidates == Ranked(rlat, rlng, rows, loadMap, maxM) IN
  IF Len(candidates) = 0
    THEN Respond(q, NoneWithinResp(maxM))
    ELSE [IdleReq EXCEPT !.route = q.route, !.pc = "update", !.orderId = q.orderId,
                         !.best = [id |-> candidates[1].id, d |-> candidates[1].d]]

(***************************************************************************)
(* Live locations: the Socket.IO "agentLocation" listeners and the         *)
(* in-memory stores (server.js 1916-1945, 2244-2311).                      *)
(*                                                                         *)
(* A JSON value of a report is a number (1e-4 degrees) or null: JSON has   *)
(* no NaN or Infinity, JSON.stringify writes them as null.                 *)
(***************************************************************************)
NumSockets == 2
MaxReports == 2

SocketIds == 1..NumSockets

JNum(v) == [t |-> "number", v |-> v]
JNull == [t |-> "null", v |-> 0]

\* typeof x === "number"
IsNumber(x) == x.t = "number"

\* !x is false: x is neither null nor 0
Truthy(x) == x.t = "number" /\ x.v # 0

\* the latitude 95 degrees and the longitude 181 degrees
LatBeyondPole == 950000
LngBeyondAntimeridian == 1810000

\* { lat, lng } of a report: two points, a zero latitude, a zero longitude,
\* a latitude and a longitude out of range, and a missing latitude
ReportCoords ==
  { <<JNum(PointA[1]), JNum(PointA[2])>>, <<JNum(PointB[1]), JNum(PointB[2])>>,
    <<JNum(0), JNum(PointA[2])>>, <<JNum(PointA[1]), JNum(0)>>,
    <<JNum(LatBeyondPole), JNum(PointA[2])>>,
    <<JNum(PointA[1]), JNum(LngBeyondAntimeridian)>>,
    <<JNull, JNum(PointA[2])>> }

\* a client's own timestamp field of a report; no handler reads it
ClientTimes == {1, 2}

\* the data of an "agentLocation" message or the body of a POST
ReportData ==
  {[agentId |-> a, lat |-> c[1], lng |-> c[2], timestamp |-> t] :
     a \in AgentIds, c \in ReportCoords, t \in ClientTimes}

NoEntries == [a \in {} |-> 0]

\* obj[key] = entry
Put(obj, key, entry) == [k \in DOMAIN obj \cup {key} |-> IF k = key THEN entry ELSE obj[k]]

\* no connection, nothing stored, nothing reported
HubIdle ==
  /\ deliveryAgents = NoEntries
  /\ globalDeliveryAgents = NoEntries
  /\ sockets = {}
  /\ stream = [s \in SocketIds |-> <<>>]
  /\ received = [s \in SocketIds |-> <<>>]
  /\ reports = <<>>
  /\ httpRes = "none"

NoCmp == [pc |-> "off"]
NoCall == [fn |-> "none"]

\* no comparison, no approve / reject or review request, an empty cart
AuxIdle ==
  /\ cmp = NoCmp
  /\ statusReq = <<>>
  /\ statusLog = <<>>
  /\ reviews = <<>>
  /\ reviewsUnique = FALSE
  /\ reviewReq = <<>>
  /\ cart = <<>>
  /\ cartCall = NoCall

(***************************************************************************)
(* Initial state: the tables as the server finds them.                     *)
(***************************************************************************)
RestaurantIds == {1, 2}

Located(p) == <<Val(p[1]), Val(p[2])>>

\* an agent's stored position: unknown, or one of the three points
AgentPositions == {<<NULL, NULL>>} \cup {Located(p) : p \in {PointA, PointB, PointC}}

\* the agents a table holds: an Active one anywhere or without a position,
\* and one awaiting approval or rejected at the nearest point
AgentRecords ==
  {[status |-> "Active", lat |-> p[1], lng |-> p[2]] : p \in AgentPositions} \cup
  {[status |-> s, lat |-> Val(PointA[1]), lng |-> Val(PointA[2])] : s \in {"Pending", "Rejected"}}

\* an order as placed: Pending, no agent
PlacedOrders ==
  {[status |-> "Pending", agent_id |-> NULL, restaurant_id |-> rid] :
     rid \in {NULL} \cup {Val(i) : i \in RestaurantIds}}

NoEngine ==
  [pc |-> "off", rlat |-> 0, rlng |-> 0, rows |-> <<>>, loadMap |-> NoLoads,
   maxM |-> 0, candidates |-> <<>>]

InitTables ==
  /\ orders \in [OrderIds -> PlacedOrders]
  /\ agents \in [AgentIds -> AgentRecords]
  /\ restaurants = (1 :> [latitude |-> Val(PickupHyd[1]), longitude |-> Val(PickupHyd[2])] @@
                    2 :> [latitude |-> NULL, longitude |-> NULL])
  /\ envMaxM \in Radii

Init ==
  /\ InitTables
  /\ req = [r \in Reqs |-> IdleReq]
  /\ engine = NoEngine
  /\ HubIdle
  /\ AuxIdle

(***************************************************************************)
(* POST /api/admin/orders/:orderId/assign                                  *)
(***************************************************************************)
\* the request arrives; the handler reads its configuration and issues the
\* SELECT on orders
AdminAssign(r, orderId) ==
  /\ req[r].pc = "idle"
  /\ req' = [req EXCEPT ![r] = [IdleReq EXCEPT !.route = "admin", !.pc = "selOrder",
                                               !.orderId = orderId, !.maxM = envMaxM]]
  /\ UNCHANGED <<orders, agents, restaurants, envMaxM, engine, hubVars, auxVars>>

\* SELECT id, restaurant_id FROM orders WHERE id = ?
AdminSelOrder(r) ==
  LET q == req[r] IN
  /\ q.route = "admin" /\ q.pc = "selOrder"
  /\ req' = [req EXCEPT ![r] =
       IF q.orderId \notin DOMAIN orders
         THEN Respond(q, ErrorResp(404, "OrderNotFound"))
       ELSE IF orders[q.orderId].restaurant_id = NULL
         THEN Respond(q, ErrorResp(400, "OrderMissingRestaurant"))
       ELSE [q EXCEPT !.pc = "selRest",
                      !.restaurant_id = orders[q.orderId].restaurant_id[1]]]
  /\ UNCHANGED <<orders, agents, restaurants, envMaxM, engine, hubVars, auxVars>>

\* SELECT latitude, longitude FROM restaurants WHERE id = ?
AdminSelRest(r) ==
  LET q == req[r] IN
  /\ q.route = "admin" /\ q.pc = "selRest"
  /\ req' = [req EXCEPT ![r] =
       IF \/ q.restaurant_id \notin DOMAIN restaurants
          \/ restaurants[q.restaurant_id].latitude = NULL
          \/ restaurants[q.restaurant_id].longitude = NULL
         THEN Respond(q, ErrorResp(400, "RestaurantLocationUnavailable"))
       ELSE [q EXCEPT !.pc = "selAgents",
                      !.rlat = Number(restaurants[q.restaurant_id].latitude),
                      !.rlng = Number(restaurants[q.restaurant_id].longitude)]]
  /\ UNCHANGED <<orders, agents, restaurants, envMaxM, engine, hubVars, auxVars>>

\* SELECT id, lat, lng FROM agents WHERE status = 'Active' AND ... NOT NULL
AdminSelAgents(r) ==
  LET q == req[r] IN
  /\ q.route = "admin" /\ q.pc = "selAgents"
  /\ \E ord \in Orderings(ActiveLocated(agents)) :
       LET rows == [i \in DOMAIN ord |-> AgentRow(agents, ord[i])] IN
       req' = [req EXCEPT ![r] =
         IF Len(rows) = 0
           THEN Respond(q, ErrorResp(400, "NoAgentsAvailable"))
           ELSE [q EXCEPT !.pc = "selLoads", !.rows = rows]]
  /\ UNCHANGED <<orders, agents, restaurants, envMaxM, engine, hubVars, auxVars>>

\* SELECT agent_id, COUNT(*) ... GROUP BY agent_id succeeds; then the
\* ranking and the issue of the UPDATE
AdminSelLoads(r) ==
  LET q == req[r] IN
  /\ q.route = "admin" /\ q.pc = "selLoads"
  /\ req' = [req EXCEPT ![r] =
       RankAndIssue(q, q.rlat, q.rlng, q.rows, LoadRows(orders), q.maxM)]
  /\ UNCHANGED <<orders, agents, restaurants, envMaxM, engine, hubVars, auxVars>>

\* the failure of the workload query passed on to the outer catch block
AdminSelLoadsRethrow(r) ==
  LET q == req[r] IN
  /\ q.route = "admin" /\ q.pc = "selLoads"
  /\ req' = [req EXCEPT ![r] = Respond(q, ErrorResp(500, "Failed"))]
  /\ UNCHANGED <<orders, agents, restaurants, envMaxM, engine, hubVars, auxVars>>

\* the workload query throws: catch (_) {} leaves loadMap empty
AdminSelLoadsFail(r) ==
  LET q == req[r] IN
  /\ q.route = "admin" /\ q.pc = "selLoads"
  /\ req' = [req EXCEPT ![r] = RankAndIssue(q, q.rlat, q.rlng, q.rows, NoLoads, q.maxM)]
  /\ UNCHANGED <<orders, agents, restaurants, envMaxM, engine, hubVars, auxVars>>

\* UPDATE orders SET agent_id = ?, status = 'Confirmed' WHERE id = ?; res.json
AdminUpdate(r) ==
  LET q == req[r] IN
  /\ q.route = "admin" /\ q.pc = "update"
  /\ orders' = UpdateAssignment(orders, q.best.id, q.orderId)
  /\ req' = [req EXCEPT ![r] = Respond(q, AssignedResp(q.best))]
  /\ UNCHANGED <<agents, restaurants, envMaxM, engine, hubVars, auxVars>>

(***************************************************************************)
(* PUT /api/orders/:orderId/assign                                         *)
(***************************************************************************)
\* req.body.agents: the caller sends records of the agents table (as
\* GET /api/admin/delivery lists them), any of them and in any order
BodyAgents ==
  UNION {{[i \in DOMAIN ord |-> AgentRow(agents, ord[i])] : ord \in Orderings(S)} :
           S \in SUBSET AgentIds}

\* req.body.rlat, req.body.rlng: a pickup coordinate, or null
BodyPickups == {<<NULL, NULL>>, Located(PickupHyd), Located(PickupNearZero)}

\* !rlat, !rlng
Falsy(v) == v = NULL \/ v[1] = 0

\* the request arrives; the handler validates, ranks and issues the UPDATE
PutAssign(r, orderId, pickup, rows, loadMap, maxM) ==
  LET q == [IdleReq EXCEPT !.route = "put", !.orderId = orderId] IN
  /\ req[r].pc = "idle"
  /\ req' = [req EXCEPT ![r] =
       IF Falsy(pickup[1]) \/ Falsy(pickup[2])
         THEN Respond(q, ErrorResp(400, "MissingData"))
         ELSE RankAndIssue(q, pickup[1][1], pickup[2][1], rows, loadMap, maxM)]
  /\ UNCHANGED <<orders, agents, restaurants, envMaxM, engine, hubVars, auxVars>>

\* UPDATE orders SET agent_id = ?, status = "Confirmed" WHERE id = ?; res.json
PutUpdate(r) ==
  LET q == req[r] IN
  /\ q.route = "put" /\ q.pc = "update"
  /\ orders' = UpdateAssignment(orders, q.best.id, q.orderId)
  /\ req' = [req EXCEPT ![r] = Respond(q, AssignedResp(q.best))]
  /\ UNCHANGED <<agents, restaurants, envMaxM, engine, hubVars, auxVars>>

\* the UPDATE written although the statement is reported as failed
DbErrorAfterWrite(r) ==
  LET q == req[r] IN
  /\ q.pc \in {"selOrder", "selRest", "selAgents", "update"}
  /\ req' = [req EXCEPT ![r] = Respond(q, ErrorResp(500, "Failed"))]
  /\ orders' = IF q.pc = "update" THEN UpdateAssignment(orders, q.best.id, q.orderId)
                                   ELSE orders
  /\ UNCHANGED <<agents, restaurants, envMaxM, engine, hubVars, auxVars>>

\* an awaited db.execute rejects: the catch block answers 500
DbError(r) ==
  LET q == req[r] IN
  /\ q.pc \in {"selOrder", "selRest", "selAgents", "update"}
  /\ req' = [req EXCEPT ![r] = Respond(q, ErrorResp(500, "Failed"))]
  /\ UNCHANGED <<orders, agents, restaurants, envMaxM, engine, hubVars, auxVars>>

(***************************************************************************)
(* Downstream fulfilment of an order (the orders router).                  *)
(***************************************************************************)
DownstreamNext(status) ==
  CASE status = "Pending"   -> {"Cancelled"}
    [] status = "Confirmed" -> {"Picked", "Cancelled"}
    [] status = "Picked"    -> {"Delivered", "Cancelled"}
    [] OTHER                -> {}

Downstream(o) ==
  /\ \E s \in DownstreamNext(orders[o].status) :
       orders' = [orders EXCEPT ![o].status = s]
  /\ UNCHANGED <<agents, restaurants, envMaxM, req, engine, hubVars, auxVars>>

Next ==
  \/ \E r \in Reqs, o \in ReqOrderIds : AdminAssign(r, o)
  \/ \E r \in Reqs : AdminSelOrder(r)
  \/ \E r \in Reqs : AdminSelRest(r)
  \/ \E r \in Reqs : AdminSelAgents(r)
  \/ \E r \in Reqs : AdminSelLoads(r)
  \/ \E r \in Reqs : AdminSelLoadsFail(r)
  \/ \E r \in Reqs : AdminUpdate(r)
  \/ \E r \in Reqs, o \in ReqOrderIds, pickup \in BodyPickups, rows \in BodyAgents,
        loadMap \in [AgentIds -> 0..MaxLoad], maxM \in Radii :
          PutAssign(r, o, pickup, rows, loadMap, maxM)
  \/ \E r \in Reqs : PutUpdate(r)
  \/ \E r \in Reqs : DbError(r)
  \/ \E o \in OrderIds : Downstream(o)

Spec == Init /\ [][Next]_vars

(***************************************************************************)
(* The decision code on its own: candidates.map, filter and sort applied   *)
(* to any pickup, radius, agent list and workloads.                        *)
(***************************************************************************)
\* req.body.loadMap: a workload for some of the agents
LoadMaps == UNION {[T -> 0..MaxLoad] : T \in SUBSET AgentIds}

EngineRows ==
  UNION {{[i \in DOMAIN ord |-> [id |-> ord[i], lat |-> pos[ord[i]][1], lng |-> pos[ord[i]][2]]] :
            ord \in Orderings(S), pos \in [S -> AgentPositions]} : S \in SUBSET AgentIds}

InitEngine ==
  /\ orders = [o \in OrderIds |-> [status |-> "Pending", agent_id |-> NULL, restaurant_id |-> NULL]]
  /\ agents = [a \in AgentIds |-> [status |-> "Pending", lat |-> NULL, lng |-> NULL]]
  /\ restaurants = [i \in RestaurantIds |-> [latitude |-> NULL, longitude |-> NULL]]
  /\ envMaxM = DefaultMaxM
  /\ req = [r \in Reqs |-> IdleReq]
  /\ HubIdle
  /\ AuxIdle
  /\ \E pickup \in {PickupHyd, PickupNearZero}, rows \in EngineRows,
        loadMap \in LoadMaps, maxM \in Radii :
       engine = [NoEngine EXCEPT !.pc = "input", !.rlat = pickup[1], !.rlng = pickup[2],
                                 !.rows = rows, !.loadMap = loadMap, !.maxM = maxM]

\* candidates = agents.map(...); candidates = candidates.filter(...);
\* candidates.sort(...)
EngineRank ==
  /\ engine.pc = "input"
  /\ engine' = [engine EXCEPT !.pc = "ranked",
                  !.candidates = Ranked(engine.rlat, engine.rlng, engine.rows,
                                        engine.loadMap, engine.maxM)]
  /\ UNCHANGED <<orders, agents, restaurants, envMaxM, req, hubVars, auxVars>>

NextEngine == EngineRank

SpecEngine == InitEngine /\ [][NextEngine]_vars

(***************************************************************************)
(* Live locations.  Three io.on("connection") callbacks are registered on  *)
(* the one server, so every connection carries three "agentLocation"       *)
(* listeners; a message runs them in the order of registration, without    *)
(* interruption.  h is the state they work on: g the global stores, d      *)
(* deliveryAgents, out the events emitted so far.                          *)
(***************************************************************************)
\* the payload { agentId, lat, lng } of an emitted event; n is the arrival
\* number of the report it stems from (kept for the properties, not sent)
Event(name, data, n) ==
  [name |-> name, agentId |-> data.agentId, lat |-> data.lat, lng |-> data.lng, n |-> n]

\* the entry kept when the key has one already
PutIfAbsent(obj, key, entry) == IF key \in DOMAIN obj THEN obj ELSE Put(obj, key, entry)

\* deliveryAgents[agentId] = { lat, lng, updatedAt }
Upsert(obj, key, entry) == Put(obj, key, entry)

\* the events put in front of the events still in flight
EnqueueFront(q, evs) == evs \o q

\* the transport of a connection delivers in the order of emission
Enqueue(q, evs) == q \o evs

\* socket.broadcast.emit: every open connection but the sender's
BroadcastToOthers(from, strm, evs) ==
  [s \in SocketIds |-> IF s \in sockets \ {from} THEN Enqueue(strm[s], evs) ELSE strm[s]]

\* an emit that waits until every connection has taken what it was sent
BroadcastWhenDrained(from, strm, evs) ==
  [s \in SocketIds |->
     IF s \in sockets /\ (\A t \in sockets : strm[t] = <<>>) THEN Enqueue(strm[s], evs)
                                                              ELSE strm[s]]

\* every connection the server has ever had, open or not
BroadcastToAll(from, strm, evs) == [s \in SocketIds |-> Enqueue(strm[s], evs)]

\* io.emit(name, payload): every open connection, the sender's included
Broadcast(from, strm, evs) ==
  [s \in SocketIds |-> IF s \in sockets THEN Enqueue(strm[s], evs) ELSE strm[s]]

\* socket.on("agentLocation") of server.js 1920-1940
AgentLocation1(h, data, n) ==
  IF data.agentId = 0 \/ ~IsNumber(data.lat) \/ ~IsNumber(data.lng)
    THEN h
    ELSE [g |-> Put(h.g, data.agentId, [lat |-> data.lat, lng |-> data.lng]),
          d |-> Upsert(h.d, data.agentId,
                       [lat |-> data.lat, lng |-> data.lng, updatedAt |-> NULL]),
          out |-> h.out \o <<Event("locationUpdate", data, n),
                              Event("agentLocation", data, n)>>]

\* socket.on("agentLocation") of server.js 2276-2281; Date.now() is read as
\* the arrival number
AgentLocation2(h, data, n) ==
  [g |-> h.g,
   d |-> Upsert(h.d, data.agentId,
                [lat |-> data.lat, lng |-> data.lng, updatedAt |-> Val(n)]),
   out |-> h.out \o <<Event("locationUpdate", data, n)>>]

\* socket.on("agentLocation") of server.js 2292-2299
AgentLocation3(h, data, n) ==
  IF data.agentId = 0 \/ ~Truthy(data.lat) \/ ~Truthy(data.lng)
    THEN h
    ELSE [h EXCEPT !.out = h.out \o <<Event("locationUpdate", data, n)>>]

\* an "agentLocation" message arrives on connection s
SocketAgentLocation(s, data) ==
  /\ s \in sockets
  /\ Len(reports) < MaxReports
  /\ LET n == Len(reports) + 1
         h0 == [g |-> globalDeliveryAgents, d |-> deliveryAgents, out |-> <<>>]
         h == AgentLocation3(AgentLocation2(AgentLocation1(h0, data, n), data, n), data, n)
     IN  /\ globalDeliveryAgents' = h.g
         /\ deliveryAgents' = h.d
         /\ stream' = Broadcast(s, stream, h.out)
         /\ reports' = Append(reports, [via |-> "socket", data |-> data,
                                         accepted |-> h.out # <<>>])
  /\ UNCHANGED <<sockets, received, httpRes>>
  /\ UNCHANGED <<orders, agents, restaurants, envMaxM, req, engine, auxVars>>

\* the handlers that match POST /api/delivery/location, in the order of
\* their registration: app.all(/.*/) of line 2165, app.post of line 2247
\* (and app.post of line 2307 behind it)
LocationRoutes == <<"catchAll", "deliveryLocation">>

\* app.all(/.*/, ...): res.sendFile(index.html)
CatchAll(h) == [d |-> h.d, out |-> <<>>, res |-> "index.html"]

\* app.post("/api/delivery/location") of server.js 2247-2259
DeliveryLocation(h, body, n) ==
  IF body.agentId = 0 \/ ~Truthy(body.lat) \/ ~Truthy(body.lng)
    THEN [d |-> h.d, out |-> <<>>, res |-> "400"]
    ELSE [d |-> Upsert(h.d, body.agentId,
                       [lat |-> body.lat, lng |-> body.lng, updatedAt |-> Val(n)]),
          out |-> <<Event("agentLocation", body, n)>>,
          res |-> "success"]

\* POST /api/delivery/location arrives: the first matching handler answers
PostDeliveryLocation(body) ==
  /\ Len(reports) < MaxReports
  /\ LET n == Len(reports) + 1
         h0 == [d |-> deliveryAgents]
         h == IF LocationRoutes[1] = "catchAll" THEN CatchAll(h0)
                                                ELSE DeliveryLocation(h0, body, n)
     IN  /\ deliveryAgents' = h.d
         /\ stream' = Broadcast(0, stream, h.out)
         /\ httpRes' = h.res
         /\ reports' = Append(reports, [via |-> "http", data |-> body,
                                         accepted |-> h.res = "success"])
  /\ UNCHANGED <<globalDeliveryAgents, sockets, received>>
  /\ UNCHANGED <<orders, agents, restaurants, envMaxM, req, engine, auxVars>>

\* a client connects: io.on("connection")
Connect(s) ==
  /\ s \notin sockets
  /\ sockets' = sockets \cup {s}
  /\ UNCHANGED <<deliveryAgents, globalDeliveryAgents, stream, received, reports, httpRes>>
  /\ UNCHANGED <<orders, agents, restaurants, envMaxM, req, engine, auxVars>>

\* socket.on("disconnect"): the connection and what was in flight on it go
Disconnect(s) ==
  /\ s \in sockets
  /\ sockets' = sockets \ {s}
  /\ stream' = [stream EXCEPT ![s] = <<>>]
  /\ received' = [received EXCEPT ![s] = <<>>]
  /\ UNCHANGED <<deliveryAgents, globalDeliveryAgents, reports, httpRes>>
  /\ UNCHANGED <<orders, agents, restaurants, envMaxM, req, engine, auxVars>>

\* the client of connection s receives the next event emitted to it
Receive(s) ==
  /\ s \in sockets
  /\ stream[s] # <<>>
  /\ received' = [received EXCEPT ![s] = Append(received[s], Head(stream[s]))]
  /\ stream' = [stream EXCEPT ![s] = Tail(stream[s])]
  /\ UNCHANGED <<deliveryAgents, globalDeliveryAgents, sockets, reports, httpRes>>
  /\ UNCHANGED <<orders, agents, restaurants, envMaxM, req, engine, auxVars>>

\* the assignment routes at rest
InitHub ==
  /\ orders = [o \in OrderIds |-> [status |-> "Pending", agent_id |-> NULL, restaurant_id |-> NULL]]
  /\ agents = [a \in AgentIds |-> [status |-> "Pending", lat |-> NULL, lng |-> NULL]]
  /\ restaurants = [i \in RestaurantIds |-> [latitude |-> NULL, longitude |-> NULL]]
  /\ envMaxM = DefaultMaxM
  /\ req = [r \in Reqs |-> IdleReq]
  /\ engine = NoEngine
  /\ HubIdle
  /\ AuxIdle

NextHub ==
  \/ \E s \in SocketIds : Connect(s)
  \/ \E s \in SocketIds : Disconnect(s)
  \/ \E s \in SocketIds, data \in ReportData : SocketAgentLocation(s, data)
  \/ \E body \in ReportData : PostDeliveryLocation(body)
  \/ \E s \in SocketIds : Receive(s)

SpecHub == InitHub /\ [][NextHub]_vars

(***************************************************************************)
(* The admin route while agents report their locations: every connection   *)
(* is open, the order is placed at the restaurant with coordinates and     *)
(* every agent is Active with a stored position.                           *)
(***************************************************************************)
InitLive ==
  /\ orders = [o \in OrderIds |-> [status |-> "Pending", agent_id |-> NULL,
                                   restaurant_id |-> Val(1)]]
  /\ agents \in [AgentIds -> {[status |-> "Active", lat |-> Val(p[1]), lng |-> Val(p[2])] :
                                p \in {PointB, PointC}}]
  /\ restaurants = (1 :> [latitude |-> Val(PickupHyd[1]), longitude |-> Val(PickupHyd[2])] @@
                    2 :> [latitude |-> NULL, longitude |-> NULL])
  /\ envMaxM = DefaultMaxM
  /\ req = [r \in Reqs |-> IdleReq]
  /\ engine = NoEngine
  /\ deliveryAgents = NoEntries
  /\ globalDeliveryAgents = NoEntries
  /\ sockets = SocketIds
  /\ stream = [s \in SocketIds |-> <<>>]
  /\ received = [s \in SocketIds |-> <<>>]
  /\ reports = <<>>
  /\ httpRes = "none"
  /\ AuxIdle

\* the reports of agents on the road: a position at PointA or at PointB
LiveReports ==
  {d \in ReportData : /\ d.timestamp = 1
                       /\ <<d.lat.v, d.lng.v>> \in {PointA, PointB}}

NextLive ==
  \/ \E s \in SocketIds, data \in LiveReports : SocketAgentLocation(s, data)
  \/ \E r \in Reqs, o \in ReqOrderIds : AdminAssign(r, o)
  \/ \E r \in Reqs : AdminSelOrder(r)
  \/ \E r \in Reqs : AdminSelRest(r)
  \/ \E r \in Reqs : AdminSelAgents(r)
  \/ \E r \in Reqs : AdminSelLoads(r)
  \/ \E r \in Reqs : AdminSelLoadsFail(r)
  \/ \E r \in Reqs : AdminUpdate(r)
  \/ \E r \in Reqs : DbError(r)

SpecLive == InitLive /\ [][NextLive]_vars

(***************************************************************************)
(* The admin route while the workload query fails every time it is run:    *)
(* the orders are placed at the restaurant with coordinates and every      *)
(* agent is Active with a stored position.                                 *)
(***************************************************************************)
InitWorkloadDown ==
  /\ orders = [o \in OrderIds |-> [status |-> "Pending", agent_id |-> NULL,
                                   restaurant_id |-> Val(1)]]
  /\ agents \in [AgentIds -> {[status |-> "Active", lat |-> Val(p[1]), lng |-> Val(p[2])] :
                                p \in {PointA, PointB, PointC}}]
  /\ restaurants = (1 :> [latitude |-> Val(PickupHyd[1]), longitude |-> Val(PickupHyd[2])] @@
                    2 :> [latitude |-> NULL, longitude |-> NULL])
  /\ envMaxM \in Radii
  /\ req = [r \in Reqs |-> IdleReq]
  /\ engine = NoEngine
  /\ HubIdle
  /\ AuxIdle

NextWorkloadDown ==
  \/ \E r \in Reqs, o \in ReqOrderIds : AdminAssign(r, o)
  \/ \E r \in Reqs : AdminSelOrder(r)
  \/ \E r \in Reqs : AdminSelRest(r)
  \/ \E r \in Reqs : AdminSelAgents(r)
  \/ \E r \in Reqs : AdminSelLoadsFail(r)
  \/ \E r \in Reqs : AdminUpdate(r)
  \/ \E r \in Reqs : DbError(r)

SpecWorkloadDown == InitWorkloadDown /\ [][NextWorkloadDown]_vars

(***************************************************************************)
(* Both assign routes on one input.  Each route is run from the point      *)
(* where it holds the pickup coordinate, the agent list, the workloads and *)
(* the radius, on the same table of orders, without any other handler in   *)
(* between: the admin route has read them from the database and the        *)
(* environment, the PUT route from the request body.                       *)
(***************************************************************************)
\* the pickups of the comparison, as both routes receive them
CmpPickups == {Located(PickupHyd), Located(PickupMeridian)}

\* agent lists with every coordinate known
CmpRows ==
  UNION {{[i \in DOMAIN ord |-> [id |-> ord[i], lat |-> pos[ord[i]][1], lng |-> pos[ord[i]][2]]] :
            ord \in Orderings(S),
            pos \in [S -> {Located(PointA), Located(PointB), Located(PointM)}]} :
         S \in SUBSET AgentIds}

\* the admin route from the restaurant row to the issue of the UPDATE
AdminDecide(q, pickup, rows, loadMap, maxM) ==
  IF pickup[1] = NULL \/ pickup[2] = NULL
    THEN Respond(q, ErrorResp(400, "RestaurantLocationUnavailable"))
  ELSE IF Len(rows) = 0
    THEN Respond(q, ErrorResp(400, "NoAgentsAvailable"))
  ELSE RankAndIssue(q, Number(pickup[1]), Number(pickup[2]), rows, loadMap, maxM)

\* the PUT route from the validation of the body to the issue of the UPDATE
PutDecide(q, pickup, rows, loadMap, maxM) ==
  IF Falsy(pickup[1]) \/ Falsy(pickup[2])
    THEN Respond(q, ErrorResp(400, "MissingData"))
    ELSE RankAndIssue(q, pickup[1][1], pickup[2][1], rows, loadMap, maxM)

\* the awaited UPDATE and the response of a handler that has issued it
Settle(q, ords) ==
  IF q.pc = "update"
    THEN [resp |-> AssignedResp(q.best), orders |-> UpdateAssignment(ords, q.best.id, q.orderId)]
    ELSE [resp |-> q.resp, orders |-> ords]

NoOutcome == [resp |-> NoResp, orders |-> <<>>]

InitCompare ==
  /\ orders = [o \in OrderIds |-> [status |-> "Pending", agent_id |-> NULL,
                                   restaurant_id |-> Val(1)]]
  /\ agents = [a \in AgentIds |-> [status |-> "Pending", lat |-> NULL, lng |-> NULL]]
  /\ restaurants = [i \in RestaurantIds |-> [latitude |-> NULL, longitude |-> NULL]]
  /\ envMaxM = DefaultMaxM
  /\ req = [r \in Reqs |-> IdleReq]
  /\ engine = NoEngine
  /\ HubIdle
  /\ statusReq = <<>> /\ statusLog = <<>>
  /\ reviews = <<>> /\ reviewsUnique = FALSE /\ reviewReq = <<>>
  /\ cart = <<>> /\ cartCall = NoCall
  /\ \E o \in OrderIds, pickup \in CmpPickups, rows \in CmpRows,
        loadMap \in [AgentIds -> 0..MaxLoad], maxM \in Radii :
       cmp = [pc |-> "input", orderId |-> o, pickup |-> pickup, rows |-> rows,
              loadMap |-> loadMap, maxM |-> maxM, admin |-> NoOutcome, put |-> NoOutcome]

\* POST /api/admin/orders/:orderId/assign on the input
CmpAdmin ==
  /\ cmp.pc = "input" /\ cmp.admin = NoOutcome
  /\ LET q == [IdleReq EXCEPT !.route = "admin", !.orderId = cmp.orderId] IN
     cmp' = [cmp EXCEPT !.admin =
               Settle(AdminDecide(q, cmp.pickup, cmp.rows, cmp.loadMap, cmp.maxM), orders)]
  /\ UNCHANGED <<orders, agents, restaurants, envMaxM, req, engine, hubVars>>
  /\ UNCHANGED <<statusReq, statusLog, reviews, reviewsUnique, reviewReq, cart, cartCall>>

\* PUT /api/orders/:orderId/assign on the input
CmpPut ==
  /\ cmp.pc = "input" /\ cmp.put = NoOutcome
  /\ LET q == [IdleReq EXCEPT !.route = "put", !.orderId = cmp.orderId] IN
     cmp' = [cmp EXCEPT !.put =
               Settle(PutDecide(q, cmp.pickup, cmp.rows, cmp.loadMap, cmp.maxM), orders)]
  /\ UNCHANGED <<orders, agents, restaurants, envMaxM, req, engine, hubVars>>
  /\ UNCHANGED <<statusReq, statusLog, reviews, reviewsUnique, reviewReq, cart, cartCall>>

NextCompare == CmpAdmin \/ CmpPut

SpecCompare == InitCompare /\ [][NextCompare]_vars

(***************************************************************************)
(* POST /api/admin/delivery/:id/approve and .../reject (server.js          *)
(* 773-799).  The handler issues its UPDATE and is resumed when the        *)
(* database module hands it the result.  The database runs each statement  *)
(* on the row as one step; when the handler that waits for it is resumed,  *)
(* relative to other handlers waiting for their statements, is up to the   *)
(* database module and the event loop.                                     *)
(***************************************************************************)
NumStatusReqs == 2

StatusReqs == 1..NumStatusReqs

\* Number(req.params.id) of the requests: no number, or the id of an agent
StatusIds == {0} \cup AgentIds

IdleStatusReq == [pc |-> "idle", id |-> 0, status |-> "", code |-> 0]

\* POST /api/admin/delivery/:id/approve arrives: the id is validated and
\* UPDATE agents SET status = 'Active' issued
Approve(r, id) ==
  /\ statusReq[r].pc = "idle"
  /\ statusReq' = [statusReq EXCEPT ![r] =
       IF id = 0 THEN [pc |-> "done", id |-> id, status |-> "Active", code |-> 400]
                 ELSE [pc |-> "update", id |-> id, status |-> "Active", code |-> 0]]
  /\ UNCHANGED <<orders, agents, restaurants, envMaxM, req, engine, hubVars>>
  /\ UNCHANGED <<cmp, statusLog, reviews, reviewsUnique, reviewReq, cart, cartCall>>

\* POST /api/admin/delivery/:id/reject arrives: the id is validated and
\* UPDATE agents SET status = 'Rejected' issued
Reject(r, id) ==
  /\ statusReq[r].pc = "idle"
  /\ statusReq' = [statusReq EXCEPT ![r] =
       IF id = 0 THEN [pc |-> "done", id |-> id, status |-> "Rejected", code |-> 400]
                 ELSE [pc |-> "update", id |-> id, status |-> "Rejected", code |-> 0]]
  /\ UNCHANGED <<orders, agents, restaurants, envMaxM, req, engine, hubVars>>
  /\ UNCHANGED <<cmp, statusLog, reviews, reviewsUnique, reviewReq, cart, cartCall>>

\* the database executes UPDATE agents SET status = ? WHERE id = ?
ExecuteStatusUpdate(r) ==
  LET q == statusReq[r] IN
  /\ q.pc = "update"
  /\ agents' = [a \in DOMAIN agents |->
                  IF a = q.id THEN [agents[a] EXCEPT !.status = q.status] ELSE agents[a]]
  /\ statusReq' = [statusReq EXCEPT ![r].pc = "executed"]
  /\ UNCHANGED <<orders, restaurants, envMaxM, req, engine, hubVars>>
  /\ UNCHANGED <<cmp, statusLog, reviews, reviewsUnique, reviewReq, cart, cartCall>>

\* the handler is resumed after its UPDATE: io.emit('agentStatusChanged',
\* { agent_id, status }) and res.json
StatusChanged(r) ==
  LET q == statusReq[r] IN
  /\ q.pc = "executed"
  /\ statusLog' = Append(statusLog, [agent_id |-> q.id, status |-> q.status, by |-> r])
  /\ statusReq' = [statusReq EXCEPT ![r].pc = "done", ![r].code = 200]
  /\ UNCHANGED <<orders, agents, restaurants, envMaxM, req, engine, hubVars>>
  /\ UNCHANGED <<cmp, reviews, reviewsUnique, reviewReq, cart, cartCall>>

\* the UPDATE is rejected: the catch block answers 500
StatusDbError(r) ==
  /\ statusReq[r].pc = "update"
  /\ statusReq' = [statusReq EXCEPT ![r].pc = "done", ![r].code = 500]
  /\ UNCHANGED <<orders, agents, restaurants, envMaxM, req, engine, hubVars>>
  /\ UNCHANGED <<cmp, statusLog, reviews, reviewsUnique, reviewReq, cart, cartCall>>

\* every agent as registered: Pending
InitAgentStatus ==
  /\ orders = [o \in OrderIds |-> [status |-> "Pending", agent_id |-> NULL, restaurant_id |-> NULL]]
  /\ agents = [a \in AgentIds |-> [status |-> "Pending", lat |-> NULL, lng |-> NULL]]
  /\ restaurants = [i \in RestaurantIds |-> [latitude |-> NULL, longitude |-> NULL]]
  /\ envMaxM = DefaultMaxM
  /\ req = [r \in Reqs |-> IdleReq]
  /\ engine = NoEngine
  /\ HubIdle
  /\ cmp = NoCmp
  /\ statusReq = [r \in StatusReqs |-> IdleStatusReq]
  /\ statusLog = <<>>
  /\ reviews = <<>> /\ reviewsUnique = FALSE /\ reviewReq = <<>>
  /\ cart = <<>> /\ cartCall = NoCall

NextAgentStatus ==
  \/ \E r \in StatusReqs, id \in StatusIds : Approve(r, id)
  \/ \E r \in StatusReqs, id \in StatusIds : Reject(r, id)
  \/ \E r \in StatusReqs : ExecuteStatusUpdate(r)
  \/ \E r \in StatusReqs : StatusChanged(r)
  \/ \E r \in StatusReqs : StatusDbError(r)

SpecAgentStatus == InitAgentStatus /\ [][NextAgentStatus]_vars

(***************************************************************************)
(* POST /api/orders/:orderId/review (server.js 389-413; the copies of      *)
(* lines 663-679 and 1572-1595 are registered behind it and never run).    *)
(* The schema of restaurant_reviews is not part of the source: the table   *)
(* may or may not have a unique index on order_id.                         *)
(***************************************************************************)
NumReviewReqs == 2

ReviewReqs == 1..NumReviewReqs

\* req.body.rating: 0 is out of the range 1..5
Ratings == {0, 4}

\* threw: "" while no statement has failed, "duplicate" when the INSERT was
\* refused by the unique index, "db" for any other failure of a statement
IdleReviewReq == [pc |-> "idle", orderId |-> 0, rating |-> 0, code |-> 0, threw |-> ""]

\* res.status(code).json(...)
ReviewDone(q, code, threw) == [q EXCEPT !.pc = "done", !.code = code, !.threw = threw]

\* the rows of restaurant_reviews with order_id = orderId
ReviewsOf(rows, orderId) == {k \in DOMAIN rows : rows[k].order_id = orderId}

\* the request arrives: orderId and rating are validated, the SELECT on
\* orders is issued
PostReview(r, orderId, rating) ==
  LET q == [IdleReviewReq EXCEPT !.orderId = orderId, !.rating = rating] IN
  /\ reviewReq[r].pc = "idle"
  /\ reviewReq' = [reviewReq EXCEPT ![r] =
       IF orderId = 0 \/ rating < 1 \/ rating > 5
         THEN ReviewDone(q, 400, "")
         ELSE [q EXCEPT !.pc = "selOrder"]]
  /\ UNCHANGED <<orders, agents, restaurants, envMaxM, req, engine, hubVars>>
  /\ UNCHANGED <<cmp, statusReq, statusLog, reviews, reviewsUnique, cart, cartCall>>

\* SELECT id, user_id, restaurant_id, status FROM orders WHERE id = ? LIMIT 1
ReviewSelOrder(r) ==
  LET q == reviewReq[r] IN
  /\ q.pc = "selOrder"
  /\ reviewReq' = [reviewReq EXCEPT ![r] =
       IF q.orderId \notin DOMAIN orders THEN ReviewDone(q, 404, "")
                                         ELSE [q EXCEPT !.pc = "selExists"]]
  /\ UNCHANGED <<orders, agents, restaurants, envMaxM, req, engine, hubVars>>
  /\ UNCHANGED <<cmp, statusReq, statusLog, reviews, reviewsUnique, cart, cartCall>>

\* SELECT id FROM restaurant_reviews WHERE order_id = ? LIMIT 1
ReviewSelExists(r) ==
  LET q == reviewReq[r] IN
  /\ q.pc = "selExists"
  /\ reviewReq' = [reviewReq EXCEPT ![r] =
       IF ReviewsOf(reviews, q.orderId) # {} THEN ReviewDone(q, 409, "")
                                            ELSE [q EXCEPT !.pc = "insert"]]
  /\ UNCHANGED <<orders, agents, restaurants, envMaxM, req, engine, hubVars>>
  /\ UNCHANGED <<cmp, statusReq, statusLog, reviews, reviewsUnique, cart, cartCall>>

\* INSERT INTO restaurant_reviews (order_id, ..., rating, comment); res.json.
\* A unique index refuses a second row of the order: the catch block
\* answers 500.
ReviewInsert(r) ==
  LET q == reviewReq[r] IN
  /\ q.pc = "insert"
  /\ IF reviewsUnique /\ ReviewsOf(reviews, q.orderId) # {}
       THEN /\ reviewReq' = [reviewReq EXCEPT ![r] = ReviewDone(q, 500, "duplicate")]
            /\ reviews' = reviews
       ELSE /\ reviewReq' = [reviewReq EXCEPT ![r] = ReviewDone(q, 200, "")]
            /\ reviews' = Append(reviews, [order_id |-> q.orderId, rating |-> q.rating])
  /\ UNCHANGED <<orders, agents, restaurants, envMaxM, req, engine, hubVars>>
  /\ UNCHANGED <<cmp, statusReq, statusLog, reviewsUnique, cart, cartCall>>

\* an awaited db.execute rejects for another reason: the catch block
\* answers 500
ReviewDbError(r) ==
  LET q == reviewReq[r] IN
  /\ q.pc \in {"selOrder", "selExists", "insert"}
  /\ reviewReq' = [reviewReq EXCEPT ![r] = ReviewDone(q, 500, "db")]
  /\ UNCHANGED <<orders, agents, restaurants, envMaxM, req, engine, hubVars>>
  /\ UNCHANGED <<cmp, statusReq, statusLog, reviews, reviewsUnique, cart, cartCall>>

InitReviews ==
  /\ orders = [o \in OrderIds |-> [status |-> "Pending", agent_id |-> NULL, restaurant_id |-> Val(1)]]
  /\ agents = [a \in AgentIds |-> [status |-> "Pending", lat |-> NULL, lng |-> NULL]]
  /\ restaurants = [i \in RestaurantIds |-> [latitude |-> NULL, longitude |-> NULL]]
  /\ envMaxM = DefaultMaxM
  /\ req = [r \in Reqs |-> IdleReq]
  /\ engine = NoEngine
  /\ HubIdle
  /\ cmp = NoCmp
  /\ statusReq = <<>> /\ statusLog = <<>>
  /\ reviews = <<>>
  /\ reviewsUnique \in BOOLEAN
  /\ reviewReq = [r \in ReviewReqs |-> IdleReviewReq]
  /\ cart = <<>> /\ cartCall = NoCall

NextReviews ==
  \/ \E r \in ReviewReqs, o \in ReqOrderIds, rating \in Ratings : PostReview(r, o, rating)
  \/ \E r \in ReviewReqs : ReviewSelOrder(r)
  \/ \E r \in ReviewReqs : ReviewSelExists(r)
  \/ \E r \in ReviewReqs : ReviewInsert(r)
  \/ \E r \in ReviewReqs : ReviewDbError(r)

SpecReviews == InitReviews /\ [][NextReviews]_vars

(***************************************************************************)
(* The browser cart (src/frontend/js/script.js.txt 19-64): an array kept   *)
(* in localStorage under "cart", read and written back by every call.      *)
(* Of an item the functions read restaurant_id, menu_item_id and quantity; *)
(* name and price are carried along and left out here.                     *)
(***************************************************************************)
MaxQuantity == 3

\* the menu items a page offers: two of restaurant 1, one of restaurant 2
MenuItems ==
  {[restaurant_id |-> 1, menu_item_id |-> 1], [restaurant_id |-> 1, menu_item_id |-> 2],
   [restaurant_id |-> 2, menu_item_id |-> 3]}

\* item.quantity of a call: absent, or a number
ItemQuantities == {NULL, Val(0), Val(1), Val(2)}

\* the argument of addToCart: { restaurant_id, menu_item_id, quantity }
AddedItems ==
  {[restaurant_id |-> m.restaurant_id, menu_item_id |-> m.menu_item_id, quantity |-> q] :
     m \in MenuItems, q \in ItemQuantities}

\* the index argument of changeQty and removeItem, counted from 0
CartIndexes == -1..Cardinality(MenuItems)

CartDeltas == {-1, 1}

\* item.quantity || 1
OrOne(v) == IF v = NULL \/ v[1] = 0 THEN 1 ELSE v[1]

\* cart.findIndex(ci => ci.menu_item_id === id), counted from 1; 0 for -1
FindIndex(c, id) ==
  IF \E k \in DOMAIN c : c[k].menu_item_id = id
    THEN CHOOSE k \in DOMAIN c : /\ c[k].menu_item_id = id
                                 /\ \A j \in 1..(k - 1) : c[j].menu_item_id # id
    ELSE 0

\* Object.assign({ quantity: 1 }, item)
AssignDefaults(item) ==
  [restaurant_id |-> item.restaurant_id, menu_item_id |-> item.menu_item_id,
   quantity |-> IF item.quantity = NULL THEN 1 ELSE item.quantity[1]]

\* c.splice(k - 1, 1) with k counted from 1
Splice(c, k) == SubSeq(c, 1, k - 1) \o SubSeq(c, k + 1, Len(c))

\* the largest quantity in the array
LargestQuantity(c) ==
  IF c = <<>> THEN 0 ELSE CHOOSE n \in {c[k].quantity : k \in DOMAIN c} :
                             \A k \in DOMAIN c : c[k].quantity <= n

\* addToCart(item); confirmed is the user's answer to confirm(...), asked
\* only when the cart holds items of another restaurant
addToCart(item, confirmed) ==
  LET asked == Len(cart) > 0 /\ cart[1].restaurant_id # item.restaurant_id
      kept == IF asked THEN <<>> ELSE cart
      idx == FindIndex(kept, item.menu_item_id)
      added == IF idx > 0
                 THEN [kept EXCEPT ![idx].quantity =
                         (IF kept[idx].quantity = 0 THEN 1 ELSE kept[idx].quantity)
                           + OrOne(item.quantity)]
                 ELSE Append(kept, AssignDefaults(item))
  IN  /\ LargestQuantity(added) <= MaxQuantity
      /\ cart' = IF asked /\ ~confirmed THEN cart ELSE added
      /\ cartCall' = [fn |-> "addToCart", declined |-> asked /\ ~confirmed]
      /\ UNCHANGED <<orders, agents, restaurants, envMaxM, req, engine, hubVars>>
      /\ UNCHANGED <<cmp, statusReq, statusLog, reviews, reviewsUnique, reviewReq>>

\* changeQty(index, delta)
changeQty(index, delta) ==
  LET k == index + 1
      q == (IF cart[k].quantity = 0 THEN 1 ELSE cart[k].quantity) + delta
  IN  /\ k \in DOMAIN cart => q <= MaxQuantity
      /\ cart' = IF k \notin DOMAIN cart THEN cart
                 ELSE IF q <= 0 THEN Splice(cart, k)
                 ELSE [cart EXCEPT ![k].quantity = q]
      /\ cartCall' = [fn |-> "changeQty", declined |-> FALSE]
      /\ UNCHANGED <<orders, agents, restaurants, envMaxM, req, engine, hubVars>>
      /\ UNCHANGED <<cmp, statusReq, statusLog, reviews, reviewsUnique, reviewReq>>

\* removeItem(index): cart.splice(index, 1); a negative index counts from
\* the end of the array
removeItem(index) ==
  LET k == IF index < 0 THEN (IF Len(cart) + index < 0 THEN 0 ELSE Len(cart) + index) + 1
                        ELSE index + 1
  IN  /\ cart' = IF k \in DOMAIN cart THEN Splice(cart, k) ELSE cart
      /\ cartCall' = [fn |-> "removeItem", declined |-> FALSE]
      /\ UNCHANGED <<orders, agents, restaurants, envMaxM, req, engine, hubVars>>
      /\ UNCHANGED <<cmp, statusReq, statusLog, reviews, reviewsUnique, reviewReq>>

\* localStorage without the key "cart": getCart() is []
InitCart ==
  /\ orders = [o \in OrderIds |-> [status |-> "Pending", agent_id |-> NULL, restaurant_id |-> NULL]]
  /\ agents = [a \in AgentIds |-> [status |-> "Pending", lat |-> NULL, lng |-> NULL]]
  /\ restaurants = [i \in RestaurantIds |-> [latitude |-> NULL, longitude |-> NULL]]
  /\ envMaxM = DefaultMaxM
  /\ req = [r \in Reqs |-> IdleReq]
  /\ engine = NoEngine
  /\ HubIdle
  /\ AuxIdle

NextCart ==
  \/ \E item \in AddedItems, confirmed \in BOOLEAN : addToCart(item, confirmed)
  \/ \E index \in CartIndexes, delta \in CartDeltas : changeQty(index, delta)
  \/ \E index \in CartIndexes : removeItem(index)

SpecCart == InitCart /\ [][NextCart]_vars

(***************************************************************************)
(* Properties of the assignment routes (checked under Spec).               *)
(***************************************************************************)
Succeeded(q) == q.pc = "done" /\ q.resp.status = 200

\* the step in which request r leaves its awaited UPDATE
LeavesUpdate(r) == req[r].pc = "update" /\ req'[r].pc = "done"

\* C1: two assign calls on the same order never both succeed: one performs
\* the Pending -> Confirmed transition, the other is refused.
CexC1 ==
  \A r1, r2 \in Reqs :
    (r1 # r2 /\ req[r1].orderId = req[r2].orderId /\ req[r1].orderId \in OrderIds)
      => ~(Succeeded(req[r1]) /\ Succeeded(req[r2]))

\* C2: assign on an order that is already Confirmed is refused and leaves
\* the order's agent reference and status as they were.
CexC2 ==
  [][\A r \in Reqs :
       (LeavesUpdate(r) /\ req[r].orderId \in OrderIds
          /\ orders[req[r].orderId].status = "Confirmed")
         => (orders'[req[r].orderId] = orders[req[r].orderId]
               /\ req'[r].resp.status # 200)]_vars

\* C3: assign performs no transition but Pending -> Confirmed: an order that
\* is Picked, Delivered or Cancelled keeps its status and its agent.
CexC3 ==
  [][\A r \in Reqs :
       (LeavesUpdate(r) /\ req[r].orderId \in OrderIds
          /\ orders[req[r].orderId].status \in {"Picked", "Delivered", "Cancelled"})
         => orders'[req[r].orderId] = orders[req[r].orderId]]_vars

\* the computed distance of a fetched row from the pickup of request q
RowDistance(q, i) ==
  dist(q.rlat, q.rlng, Number(q.rows[i].lat), Number(q.rows[i].lng))

CexC10 ==
  [][\A r \in Reqs :
       (LeavesUpdate(r) /\ req'[r].resp.status = 200)
         => /\ agents[req[r].best.id].status = "Active"
            /\ agents[req[r].best.id].lat # NULL
            /\ agents[req[r].best.id].lng # NULL]_vars

\* the step in which request r ranks the fetched agents
RanksRows(r) == req[r].route = "admin" /\ req[r].pc = "selLoads" /\ req'[r] # req[r]

\* C11: the workload by which an assign call ranks an agent is the number of
\* stored orders that reference the agent with a status in the active set:
\* the call's outcome is the one the ranking yields from those counts.
CexC11 ==
  [][\A r \in Reqs :
       RanksRows(r) =>
         req'[r] = RankAndIssue(req[r], req[r].rlat, req[r].rlng, req[r].rows,
                                LoadRows(orders), req[r].maxM)]_vars

\* C12: assign on an order id that does not exist fails (OrderNotFound): no
\* call naming such an id is answered with success.
CexC12 ==
  \A r \in Reqs :
    (req[r].pc = "done" /\ req[r].route # "none" /\ req[r].orderId \notin OrderIds)
      => req[r].resp.status # 200

\* C13: while no agent is Active with known coordinates, assign neither
\* succeeds nor answers NoAgentsWithinRadius: it fails with NoAgentsAvailable
\* unless an earlier step has failed already.
CexC13 ==
  \A r \in Reqs :
    (req[r].pc = "done" /\ req[r].route # "none" /\ ActiveLocated(agents) = {})
      => req[r].resp.error \in {"OrderNotFound", "OrderMissingRestaurant",
                                "RestaurantLocationUnavailable", "MissingData",
                                "NoAgentsAvailable", "Failed"}

\* C21: an assign call that returns a failure has written nothing: the step
\* in which a call fails, and every step of a call but the one that answers
\* success, leaves the orders as they were.
ThmC21 ==
  [][\A r \in Reqs :
       (req'[r] # req[r] /\ ~(req'[r].pc = "done" /\ req'[r].resp.status = 200))
         => orders' = orders]_vars

\* the UPDATE of a call on a Pending order was rejected and a validation of
\* another call on it failed: the order is still Pending without an agent
WitC21 ==
  \E r1, r2 \in Reqs :
    /\ req[r1].pc = "done" /\ req[r1].resp.error = "Failed" /\ req[r1].route = "put"
    /\ req[r2].pc = "done" /\ req[r2].resp.status = 400
    /\ req[r1].orderId = req[r2].orderId /\ req[r1].orderId \in OrderIds
    /\ orders[req[r1].orderId].status = "Pending"
    /\ orders[req[r1].orderId].agent_id = NULL

\* C24: when an assign call answers success with agent X for order O, an
\* order O is stored and has agent X and status Confirmed: no call answers
\* success when its UPDATE matched no order.
CexC24 ==
  [][\A r \in Reqs :
       (LeavesUpdate(r) /\ req'[r].resp.status = 200) =>
         /\ req[r].orderId \in DOMAIN orders'
         /\ orders'[req[r].orderId].agent_id = Val(req'[r].resp.agent_id)
         /\ orders'[req[r].orderId].status = "Confirmed"]_vars

(***************************************************************************)
(* Properties of the decision code (checked under SpecEngine).             *)
(***************************************************************************)
EngineDistance(i) ==
  dist(engine.rlat, engine.rlng, Number(engine.rows[i].lat), Number(engine.rows[i].lng))

\* the workload supplied for a row's agent, 0 when none is supplied
EngineLoad(i) ==
  IF engine.rows[i].id \in DOMAIN engine.loadMap
    THEN engine.loadMap[engine.rows[i].id] ELSE 0

\* the supplied agents whose computed distance does not exceed the radius
EngineEligible == {i \in DOMAIN engine.rows : EngineDistance(i) <= engine.maxM}

Selected == engine.pc = "ranked" /\ engine.candidates # <<>>

\* C4: no agent in the result is farther from the pickup than the maximum
\* radius, and an agent at exactly the radius is kept.
ThmC4 ==
  engine.pc = "ranked" =>
    /\ \A k \in DOMAIN engine.candidates :
         /\ engine.candidates[k].d <= engine.maxM
         /\ \E i \in DOMAIN engine.rows :
              /\ engine.rows[i].id = engine.candidates[k].id
              /\ EngineDistance(i) = engine.candidates[k].d
    /\ \A i \in DOMAIN engine.rows :
         EngineDistance(i) = engine.maxM =>
           \E k \in DOMAIN engine.candidates : engine.candidates[k].id = engine.rows[i].id

\* the selected agent is exactly at the radius while another was discarded
WitC4 ==
  /\ Selected
  /\ engine.candidates[1].d = engine.maxM
  /\ \E i \in DOMAIN engine.rows : EngineDistance(i) > engine.maxM

\* C5: the selected agent has the least workload among the agents within
\* the radius and, among those of least workload, the least distance.
ThmC5 ==
  engine.pc = "ranked" =>
    /\ (engine.candidates # <<>>) <=> (EngineEligible # {})
    /\ Selected =>
         \E b \in EngineEligible :
           /\ engine.rows[b].id = engine.candidates[1].id
           /\ \A i \in EngineEligible :
                \/ EngineLoad(b) < EngineLoad(i)
                \/ EngineLoad(b) = EngineLoad(i) /\ EngineDistance(b) <= EngineDistance(i)

\* a farther agent of lower workload was selected over a nearer, busier one
WitC5 ==
  /\ Selected
  /\ \E k \in DOMAIN engine.candidates :
       /\ engine.candidates[k].d < engine.candidates[1].d
       /\ engine.candidates[k].load > engine.candidates[1].load

\* C6: among agents within the radius of equal workload and equal distance
\* the one of lowest id is selected.
CexC6 ==
  Selected =>
    \A i \in EngineEligible :
      (EngineLoad(i) = engine.candidates[1].load /\ EngineDistance(i) = engine.candidates[1].d)
        => engine.candidates[1].id <= engine.rows[i].id

\* C7: the selection is the same for every order in which the same agent
\* records are supplied.
CexC7 ==
  Selected =>
    \A perm \in Orderings(DOMAIN engine.rows) :
      LET again == Ranked(engine.rlat, engine.rlng,
                          [i \in DOMAIN engine.rows |-> engine.rows[perm[i]]],
                          engine.loadMap, engine.maxM)
      IN  again[1].id = engine.candidates[1].id

(***************************************************************************)
(* Properties of the live locations (checked under SpecHub).               *)
(***************************************************************************)
\* finite numbers, latitude in [-90, 90], longitude in [-180, 180]
WellFormed(data) ==
  /\ IsNumber(data.lat) /\ IsNumber(data.lng)
  /\ data.lat.v \in -900000..900000
  /\ data.lng.v \in -1800000..1800000

\* the step in which a location report arrives, and that report
Arrives == Len(reports') = Len(reports) + 1
Arrived == reports'[Len(reports')]

\* the arrival numbers of the reports for agent a that were stored
AcceptedFor(a) == {i \in DOMAIN reports : reports[i].accepted /\ reports[i].data.agentId = a}

Latest(S) == CHOOSE i \in S : \A j \in S : j <= i

\* C14: a report whose coordinate is not well-formed changes no entry of
\* the location stores and is not broadcast.
CexC14 ==
  [][(Arrives /\ ~WellFormed(Arrived.data))
       => /\ deliveryAgents' = deliveryAgents
          /\ globalDeliveryAgents' = globalDeliveryAgents
          /\ stream' = stream]_vars

\* C15: a report with a well-formed coordinate, a zero latitude or longitude
\* included, puts that coordinate in the agent's entry of the store and
\* emits an event for it to every open connection.
CexC15 ==
  [][(Arrives /\ WellFormed(Arrived.data))
       => /\ Arrived.data.agentId \in DOMAIN deliveryAgents'
          /\ deliveryAgents'[Arrived.data.agentId].lat = Arrived.data.lat
          /\ deliveryAgents'[Arrived.data.agentId].lng = Arrived.data.lng
          /\ \A s \in sockets : Len(stream'[s]) > Len(stream[s])]_vars

\* C16: the store holds one entry for each agent id with an accepted
\* report and for no other id, the entry is that of the accepted report
\* that arrived last, whatever the reports' own timestamps, and an entry is
\* never removed.
ThmC16 ==
  /\ [](/\ DOMAIN deliveryAgents = {a \in AgentIds : AcceptedFor(a) # {}}
        /\ \A a \in DOMAIN deliveryAgents :
             LET last == Latest(AcceptedFor(a)) IN
             /\ deliveryAgents[a].lat = reports[last].data.lat
             /\ deliveryAgents[a].lng = reports[last].data.lng
             /\ deliveryAgents[a].updatedAt = Val(last))
  /\ [][DOMAIN deliveryAgents \subseteq DOMAIN deliveryAgents']_vars

\* an agent's second report, of an earlier client timestamp and another
\* coordinate than its first, is the one the store holds
WitC16 ==
  /\ Len(reports) = 2
  /\ reports[1].accepted /\ reports[2].accepted
  /\ reports[1].data.agentId = reports[2].data.agentId
  /\ reports[2].data.timestamp < reports[1].data.timestamp
  /\ reports[1].data.lat # reports[2].data.lat
  /\ deliveryAgents[reports[2].data.agentId].lat = reports[2].data.lat

\* C17: an accepted report is emitted to every connection open when it
\* arrives, and a client taking an event from its stream leaves the streams
\* of the other connections as they are.
ThmC17 ==
  [][/\ (Arrives /\ Arrived.accepted) =>
          \A s \in sockets :
            /\ Len(stream'[s]) > Len(stream[s])
            /\ SubSeq(stream'[s], 1, Len(stream[s])) = stream[s]
            /\ \A k \in (Len(stream[s]) + 1)..Len(stream'[s]) :
                 /\ stream'[s][k].n = Len(reports')
                 /\ stream'[s][k].agentId = Arrived.data.agentId
                 /\ stream'[s][k].lat = Arrived.data.lat
                 /\ stream'[s][k].lng = Arrived.data.lng
     /\ \A s \in sockets :
          Len(received'[s]) > Len(received[s]) =>
            \A t \in SocketIds \ {s} : stream'[t] = stream[t] /\ received'[t] = received[t]]_vars

\* one client has received the event of a report that is still in flight
\* to another one
WitC17 ==
  \E s, t \in sockets :
    /\ s # t
    /\ received[s] # <<>> /\ stream[t] # <<>>
    /\ received[s][1].n = stream[t][1].n
    /\ received[t] = <<>>

\* the events of connection s in the order of their emission
Emitted(s) == received[s] \o stream[s]

\* C18: on every connection the events of one agent come in the order in
\* which its reports arrived, each with the coordinate of its report.
ThmC18 ==
  \A s \in sockets :
    /\ \A i, j \in DOMAIN Emitted(s) :
         (i < j /\ Emitted(s)[i].agentId = Emitted(s)[j].agentId)
           => Emitted(s)[i].n <= Emitted(s)[j].n
    /\ \A i \in DOMAIN Emitted(s) :
         /\ Emitted(s)[i].lat = reports[Emitted(s)[i].n].data.lat
         /\ Emitted(s)[i].lng = reports[Emitted(s)[i].n].data.lng

\* a client has received the events of two reports of one agent with
\* different coordinates while both reports' events were in flight at once
WitC18 ==
  \E s \in sockets :
    \E i, j \in DOMAIN received[s] :
      /\ i < j
      /\ received[s][i].agentId = received[s][j].agentId
      /\ received[s][i].n = 1 /\ received[s][j].n = 2
      /\ received[s][i].lat # received[s][j].lat

\* a client that has events waiting and has taken none of them
Slow(s) == s \in sockets /\ received[s] = <<>> /\ stream[s] # <<>>

\* C22: while a subscriber does not consume its events, a report is still
\* stored and emitted to every other connection, every other client can
\* take its next event, and a further report can be handled.
ThmC22 ==
  /\ [][\A s \in SocketIds :
          (Slow(s) /\ Arrives /\ Arrived.via = "socket") =>
            /\ Arrived.accepted
            /\ deliveryAgents'[Arrived.data.agentId].lat = Arrived.data.lat
            /\ deliveryAgents'[Arrived.data.agentId].lng = Arrived.data.lng
            /\ \A t \in sockets : Len(stream'[t]) > Len(stream[t])]_vars
  /\ [](\A s \in SocketIds :
          Slow(s) =>
            /\ \A t \in sockets \ {s} : stream[t] # <<>> => ENABLED Receive(t)
            /\ Len(reports) < MaxReports =>
                 \A t \in sockets : \A data \in ReportData :
                   ENABLED SocketAgentLocation(t, data))

\* a client has taken none of the events of two reports while another
\* client has received the event of the second
WitC22 ==
  \E s, t \in sockets :
    /\ s # t /\ Slow(s)
    /\ \E i, j \in DOMAIN stream[s] : stream[s][i].n = 1 /\ stream[s][j].n = 2
    /\ \E k \in DOMAIN received[t] : received[t][k].n = 2

\* C23: a connection that is closed is out of the set the server emits to:
\* nothing is in flight to it, no report is emitted to it, and the set holds
\* the open connections only, changed by one connect or disconnect at a time.
ThmC23 ==
  /\ [](\A s \in SocketIds \ sockets : stream[s] = <<>> /\ received[s] = <<>>)
  /\ [][\A s \in SocketIds :
          /\ (Arrives /\ s \notin sockets) => stream'[s] = stream[s]
          /\ (s \in sockets /\ s \notin sockets') =>
                (sockets' = sockets \ {s} /\ stream'[s] = <<>>)
          /\ (s \notin sockets /\ s \in sockets') => sockets' = sockets \cup {s}]_vars

\* two reports have arrived, a connection is closed, and the open one holds
\* events of the second report only
WitC23 ==
  \E s, t \in SocketIds :
    /\ s \notin sockets /\ t \in sockets
    /\ Len(reports) = 2
    /\ reports[1].accepted /\ reports[2].accepted
    /\ Emitted(t) # <<>>
    /\ \A k \in DOMAIN Emitted(t) : Emitted(t)[k].n = 2

\* the positions in the events of connection s of the locationUpdate events
\* for agent a
UpdatesFor(s, a) ==
  {k \in DOMAIN Emitted(s) : /\ Emitted(s)[k].name = "locationUpdate"
                              /\ Emitted(s)[k].agentId = a}

\* C27: the copies of the location store agree: an agent id has an entry in
\* the global stores exactly if it has one in deliveryAgents, the entries
\* hold the same lat/lng, and that is the lat/lng of the last locationUpdate
\* event emitted for the agent.
CexC27 ==
  \A a \in AgentIds :
    /\ a \in DOMAIN deliveryAgents <=> a \in DOMAIN globalDeliveryAgents
    /\ (a \in DOMAIN deliveryAgents /\ a \in DOMAIN globalDeliveryAgents) =>
         /\ deliveryAgents[a].lat = globalDeliveryAgents[a].lat
         /\ deliveryAgents[a].lng = globalDeliveryAgents[a].lng
    /\ \A s \in sockets :
         (a \in DOMAIN deliveryAgents /\ UpdatesFor(s, a) # {}) =>
           LET ev == Emitted(s)[Latest(UpdatesFor(s, a))] IN
           deliveryAgents[a].lat = ev.lat /\ deliveryAgents[a].lng = ev.lng

(***************************************************************************)
(* Properties of assignment and live locations together (SpecLive).        *)
(***************************************************************************)
\* the step in which request r receives the agents it will rank
FetchesAgents(r) == req[r].pc = "selAgents" /\ req'[r].pc = "selLoads"

\* C19: assign ranks an agent by the coordinate the live location store
\* holds for it: the position fetched for an agent with an accepted report
\* is the reported one.
CexC19 ==
  [][\A r \in Reqs :
       FetchesAgents(r) =>
         \A i \in DOMAIN req'[r].rows :
           req'[r].rows[i].id \in DOMAIN deliveryAgents =>
             /\ req'[r].rows[i].lat = Val(deliveryAgents[req'[r].rows[i].id].lat.v)
             /\ req'[r].rows[i].lng = Val(deliveryAgents[req'[r].rows[i].id].lng.v)]_vars

\* C20: the step that persists a successful assignment emits a notification
\* to the open connections.
CexC20 ==
  [][\A r \in Reqs :
       (LeavesUpdate(r) /\ req'[r].resp.status = 200)
         => \E s \in sockets : Len(stream'[s]) > Len(stream[s])]_vars

(***************************************************************************)
(* Properties of the admin route without the workload query                *)
(* (SpecWorkloadDown).                                                     *)
(***************************************************************************)
\* the distance of row i of request r from the pickup the request has read
RowFromPickup(r, i) ==
  dist(req[r].rlat, req[r].rlng, Number(req[r].rows[i].lat), Number(req[r].rows[i].lng))

\* the rows of request r within the radius the request has read
RowsWithin(r) == {i \in DOMAIN req[r].rows : RowFromPickup(r, i) <= req[r].maxM}

\* C25: a failure of the workload query does not fail the admin assign call:
\* the call goes on with every workload taken as 0, so it chooses a nearest
\* agent within the radius (or answers that none is within it), and its
\* UPDATE assigns the order to that agent.
ThmC25 ==
  [][\A r \in Reqs :
       /\ RanksRows(r) =>
            /\ req'[r].resp.status # 500
            /\ IF RowsWithin(r) = {}
                 THEN req'[r].pc = "done" /\ req'[r].resp.error = "NoAgentsWithinRadius"
                 ELSE /\ req'[r].pc = "update"
                      /\ \E i \in RowsWithin(r) :
                           /\ req'[r].best = [id |-> req[r].rows[i].id, d |-> RowFromPickup(r, i)]
                           /\ \A j \in RowsWithin(r) : RowFromPickup(r, i) <= RowFromPickup(r, j)
       /\ (LeavesUpdate(r) /\ req'[r].resp.status = 200 /\ req[r].orderId \in OrderIds) =>
            /\ orders'[req[r].orderId].agent_id = Val(req[r].best.id)
            /\ req'[r].resp.agent_id = req[r].best.id]_vars

\* a call has chosen the nearest agent although that agent holds an
\* assigned order and another agent within the radius holds none
WitC25 ==
  \E r \in Reqs, a, b \in AgentIds :
    /\ req[r].route = "admin" /\ req[r].pc = "update" /\ req[r].best.id = a
    /\ a \in DOMAIN LoadRows(orders) /\ b \notin DOMAIN LoadRows(orders)
    /\ LET da == dist(PickupHyd[1], PickupHyd[2], Number(agents[a].lat), Number(agents[a].lng))
           db == dist(PickupHyd[1], PickupHyd[2], Number(agents[b].lat), Number(agents[b].lng))
       IN  da < db /\ db <= envMaxM

(***************************************************************************)
(* Properties of the two assign routes on one input (SpecCompare).         *)
(***************************************************************************)
\* C26: on the same pickup, radius, agent list and workloads both assign
\* routes come to the same outcome: both select the same agent or neither
\* selects one, and both leave the order in the same state.
CexC26 ==
  (cmp.pc = "input" /\ cmp.admin # NoOutcome /\ cmp.put # NoOutcome) =>
    /\ (cmp.admin.resp.status = 200) <=> (cmp.put.resp.status = 200)
    /\ cmp.admin.resp.status = 200 => cmp.admin.resp.agent_id = cmp.put.resp.agent_id
    /\ cmp.admin.orders = cmp.put.orders

(***************************************************************************)
(* Properties of approve and reject (SpecAgentStatus).                     *)
(***************************************************************************)
\* the positions in statusLog of the events for agent a
StatusEventsFor(a) == {k \in DOMAIN statusLog : statusLog[k].agent_id = a}

\* C28: once every approve and reject request has completed, the stored
\* status of an agent is the status of the last agentStatusChanged event
\* emitted for it, and every event carries the id and the status of the
\* request that emitted it.
CexC28 ==
  /\ (\A r \in DOMAIN statusReq : statusReq[r].pc \in {"idle", "done"}) =>
       \A a \in AgentIds :
         StatusEventsFor(a) # {} =>
           agents[a].status = statusLog[Latest(StatusEventsFor(a))].status
  /\ \A k \in DOMAIN statusLog :
       /\ statusLog[k].agent_id = statusReq[statusLog[k].by].id
       /\ statusLog[k].status = statusReq[statusLog[k].by].status

(***************************************************************************)
(* Properties of the review route (SpecReviews).                           *)
(***************************************************************************)
\* the step in which request r is answered after its check or its INSERT
\* was run by the database
ReviewAnswered(r) ==
  /\ reviewReq[r].pc \in {"selExists", "insert"}
  /\ reviewReq'[r].pc = "done" /\ reviewReq'[r].threw # "db"

\* C29: restaurant_reviews never holds more than one row of an order, and a
\* request is answered 409 whenever a review of its order is stored already.
CexC29 ==
  /\ [](\A o \in OrderIds : Cardinality(ReviewsOf(reviews, o)) <= 1)
  /\ [][\A r \in DOMAIN reviewReq :
          (ReviewAnswered(r) /\ ReviewsOf(reviews, reviewReq[r].orderId) # {})
            => reviewReq'[r].code = 409]_vars

(***************************************************************************)
(* Properties of the browser cart (SpecCart).                              *)
(***************************************************************************)
SingleRestaurant == \A i, j \in DOMAIN cart : cart[i].restaurant_id = cart[j].restaurant_id

QuantitiesPositive == \A i \in DOMAIN cart : cart[i].quantity >= 1

OneEntryPerMenuItem ==
  \A i, j \in DOMAIN cart : cart[i].menu_item_id = cart[j].menu_item_id => i = j

\* C30: after any calls of addToCart, changeQty and removeItem the cart
\* holds items of one restaurant, each with quantity >= 1 and no two with
\* the same menu_item_id, and an addToCart whose confirmation the user
\* declines leaves the cart as it was.
CexC30 ==
  /\ [](SingleRestaurant /\ QuantitiesPositive /\ OneEntryPerMenuItem)
  /\ [][(cartCall'.fn = "addToCart" /\ cartCall'.declined) => cart' = cart]_vars

====
